---- MODULE Spec2Model ----
(***************************************************************************)
(* Workspace orchestrator of MultiProjectLayout: project selection,        *)
(* session list loading, placeholder ("temporary") sessions and their      *)
(* reconciliation with the identifier assigned by the engine, and the      *)
(* writes of the last selection to the settings store.                     *)
(***************************************************************************)
EXTENDS Integers, Sequences, FiniteSets, TLC

\* ---------------------------------------------------------------- bounds
\* Number of "new session" actions (values of Date.now()) explored.
MaxClock == 2
\* Number of adapter calls that may be in flight at the same time.
MaxPending == 2

\* Number of records the project registry may hold.
MaxRecords == 2

\* ------------------------------------------------------------ the world
Range(s) == {s[i] : i \in 1..Len(s)}

\* The directories the user registers projects for, and "/f", which is not
\* an accessible directory.
Paths == {"/a", "/a-other"}
BadPath == "/f"

\* encodeProjectPath(path): the project id of a path, in the format of the
\* ids of discovered projects.
encodeProjectPath(path) ==
    CASE path = "/a" -> "P1"
      [] path = "/a-other" -> "P2"
      [] path = "/b" -> "P3"
      [] OTHER -> "P4"

\* Project.path of a project id.
PathOf(p) ==
    CASE p = "P1" -> "/a"
      [] p = "P2" -> "/a-other"
      [] p = "P3" -> "/b"
      [] OTHER -> BadPath

\* A Project object of the renderer; databaseId is 0 where it is undefined.
Project(id, path, isUserProject, databaseId) ==
    [id |-> id, path |-> path, isUserProject |-> isUserProject,
     databaseId |-> databaseId]

\* A row of user_projects; rows are kept in the order they were created.
UserProject(id, path, is_active) ==
    [id |-> id, path |-> path, is_active |-> is_active]

\* The registry at the first start of the workspace.
InitialDb == <<UserProject(1, "/a", TRUE)>>

RECURSIVE Reverse(_)
Reverse(s) == IF s = <<>> THEN <<>> ELSE Reverse(Tail(s)) \o <<Head(s)>>

\* repository.find({ where: { is_active: true }, order: { created_at: 'DESC' } })
SelectActive(rows) == SelectSeq(rows, LAMBDA r : r.is_active)

getAllUserProjects(rows) == Reverse(SelectActive(rows))

\* The 'get-user-projects' handler: the active rows as Project objects.
getUserProjects(rows) ==
    LET found == getAllUserProjects(rows)
    IN [i \in 1..Len(found) |->
           Project(encodeProjectPath(found[i].path), found[i].path, TRUE,
                   found[i].id)]

\* Projects returned by api.getUserProjects() and api.listProjects().
RegisteredProjects == getUserProjects(InitialDb)
DiscoveredProjects == <<Project("P2", "/a-other", FALSE, 0)>>

\* The ids of the projects of the workspace.
Projects == {r.id : r \in Range(RegisteredProjects) \cup Range(DiscoveredProjects)}

\* Identifiers the engine may report through onSessionCreated.
EngineIds == {"R1", "S2"}

\* Session ids the engine keeps in the history of a project.
HistoryIds(p) == IF p = "P1" THEN <<"S1", "S2">> ELSE <<"S3">>

NullProject == "null"

NullSession ==
    [id |-> "null", project_id |-> "null", project_path |-> "null",
     isTemporary |-> FALSE, isNewlyCreated |-> FALSE]

\* A Session object as api.getProjectSessions returns it.
HistorySession(p, sid) ==
    [id |-> sid, project_id |-> p, project_path |-> PathOf(p),
     isTemporary |-> FALSE, isNewlyCreated |-> FALSE]

\* Result of api.getProjectSessions(project.id).
getProjectSessions(p) ==
    [i \in 1..Len(HistoryIds(p)) |-> HistorySession(p, HistoryIds(p)[i])]

\* `new-session-${Date.now()}`
TempSessionId(t) == "new-session-" \o ToString(t)

\* The keys of the settings store written by the selection handlers.
CURRENT_PROJECT_ID == "ui.currentProject.id"
CURRENT_SESSION_ID == "ui.currentSession.id"
LEFT_PANEL_COLLAPSED == "ui.leftPanel.collapsed"
RIGHT_PANEL_COLLAPSED == "ui.rightPanel.collapsed"
LEFT_PANEL_WIDTH == "ui.leftPanel.width"
RIGHT_PANEL_WIDTH == "ui.rightPanel.width"
CLAUDE_PROJECTS_COLLAPSED == "ui.claudeProjects.collapsed"
LayoutKeys == {LEFT_PANEL_COLLAPSED, RIGHT_PANEL_COLLAPSED, LEFT_PANEL_WIDTH,
               RIGHT_PANEL_WIDTH, CLAUDE_PROJECTS_COLLAPSED}
SettingsKeys == LayoutKeys \cup {CURRENT_PROJECT_ID, CURRENT_SESSION_ID}
Absent == "absent"

\* ---------------------------------------------------------------- state
VARIABLES
    userProjects,     \* useState<Project[]>: registered projects shown
    claudeProjects,   \* useState<Project[]>: discovered projects shown
    sessions,         \* useState<Session[]>
    currentProject,   \* useState<Project | null>, by project id
    currentSession,   \* useState<Session | null>
    settings,         \* the settings store behind api.setSetting
    pending,          \* list adapter calls in flight, in the order issued
    now,              \* Date.now()
    awaiting,         \* placeholder whose first message the mounted view sent
    hist,             \* the last handler run and the state it started from
    projects,         \* useState<Project[]>: the merged list
    db,               \* the rows of user_projects
    uiState,          \* useState<UIState>
    searchQuery       \* useState(''), as a sequence of characters

vars == <<userProjects, claudeProjects, sessions, currentProject,
          currentSession, settings, pending, now, awaiting, hist,
          projects, db, uiState, searchQuery>>

\* const DEFAULT_UI_STATE
DEFAULT_UI_STATE ==
    [leftPanelCollapsed |-> FALSE, rightPanelCollapsed |-> FALSE,
     leftPanelWidth |-> 300, rightPanelWidth |-> 300,
     claudeProjectsCollapsed |-> TRUE]

\* ------------------------------------------------------------- rendering
\* key={currentSession.isTemporary ? `temp-${currentProject.id}` : currentSession.id}
\* of the conversation view; "unmounted" when the view is not rendered.
KeyOf(project, session) ==
    IF project # NullProject /\ session # NullSession
    THEN IF session.isTemporary THEN "temp-" \o project ELSE session.id
    ELSE "unmounted"

RenderKey == KeyOf(currentProject, currentSession)

\* allSessions of the session history panel.
AllSessionsOf(list, session) ==
    IF session # NullSession /\ session.isTemporary
       /\ ~\E i \in 1..Len(list) : list[i].id = session.id
    THEN <<session>> \o list
    ELSE list

AllSessions == AllSessionsOf(sessions, currentSession)

\* prev.filter(s => s.id !== newSessionId)
RECURSIVE FilterOutId(_, _)
FilterOutId(list, sid) ==
    IF list = <<>> THEN <<>>
    ELSE IF Head(list).id = sid THEN FilterOutId(Tail(list), sid)
         ELSE <<Head(list)>> \o FilterOutId(Tail(list), sid)

RemoveAt(s, i) == [j \in 1..(Len(s) - 1) |-> IF j < i THEN s[j] ELSE s[j + 1]]

Call(kind, arg, val) == [kind |-> kind, arg |-> arg, val |-> val]

\* What a handler leaves for the properties to look at: its name and its
\* argument, and for the two handlers that replace or rename the selection
\* also the selection, list and key they started from.
NoHist(op, arg, origin) ==
    [op |-> op, arg |-> arg, origin |-> origin,
     sessions |-> <<>>, currentSession |-> NullSession,
     currentProject |-> NullProject, shown |-> <<>>, key |-> "unmounted",
     discovered |-> <<>>, result |-> "null"]

Hist(op, arg, origin) ==
    IF op \in {"onSessionCreated", "handleCreateNewSession"}
    THEN [NoHist(op, arg, origin) EXCEPT
             !.sessions = sessions, !.currentSession = currentSession,
             !.currentProject = currentProject, !.shown = AllSessions,
             !.key = RenderKey]
    ELSE NoHist(op, arg, origin)

\* What a handler of the registry leaves: its name, its argument and its
\* result.
RegistryHist(op, arg, result) ==
    [NoHist(op, arg, "null") EXCEPT !.result = result]

\* The view instance is kept while its key is unchanged; a view that is
\* unmounted or remounted no longer reports an identifier.
AwaitingAfter(project, session) ==
    IF KeyOf(project, session) = RenderKey THEN awaiting ELSE "null"

\* ------------------------------------------------------------------ Init
Init ==
    /\ userProjects = <<>>
    /\ claudeProjects = <<>>
    /\ sessions = <<>>
    /\ currentProject = NullProject
    /\ currentSession = NullSession
    /\ settings = [k \in SettingsKeys |-> Absent]
    /\ pending = <<Call("loadProjects", "null", "null")>>
    /\ now = 0
    /\ awaiting = "null"
    /\ hist = NoHist("init", "null", "null")
    /\ projects = <<>>
    /\ db = InitialDb
    /\ uiState = DEFAULT_UI_STATE
    /\ searchQuery = <<>>

\* --------------------------------------------------------------- actions
MergeProjects_discoveredFirst(registered, discovered) == discovered \o registered

\* const allProjects = [...userProjects, ...claudeProjects]
MergeProjects(registered, discovered) == registered \o discovered

\* loadProjects resolved: api.listProjects() answered with `discovered` and
\* api.getUserProjects() with the active rows, or one of them threw.
LoadProjectsDone(i, discovered, ok) ==
    /\ pending[i].kind = "loadProjects"
    /\ IF ok
       THEN /\ projects' = MergeProjects(getUserProjects(db), discovered)
            /\ userProjects' = getUserProjects(db)
            /\ claudeProjects' = discovered
       ELSE UNCHANGED <<projects, userProjects, claudeProjects>>
    /\ pending' = RemoveAt(pending, i)
    /\ hist' = [NoHist("loadProjects", IF ok THEN "ok" ELSE "failed",
                       pending[i].arg)
                   EXCEPT !.discovered = IF ok THEN discovered ELSE <<>>]
    /\ UNCHANGED <<sessions, currentProject, currentSession, settings, now,
                   awaiting, db, uiState, searchQuery>>

\* handleProjectSelect up to its first await.
handleProjectSelect(project) ==
    /\ project \in Range(userProjects) \cup Range(claudeProjects)
    /\ Len(pending) < MaxPending
    /\ currentProject' = project.id
    /\ currentSession' = NullSession
    /\ pending' = Append(pending, Call("getProjectSessions", project.id, "null"))
    /\ awaiting' = AwaitingAfter(project.id, NullSession)
    /\ hist' = Hist("handleProjectSelect", project.id, "null")
    /\ UNCHANGED <<userProjects, claudeProjects, sessions, settings, now,
                   projects, db, uiState, searchQuery>>

\* api.setSetting(key, value): the store takes the value, or the call fails
\* and the failure is only logged.  Nothing follows the await in either
\* handler, so the write is taken at the call.
setSetting(store, key, value, ok) ==
    IF ok THEN [store EXCEPT ![key] = value] ELSE store

\* loadSessions after its await, then the rest of handleProjectSelect.
LoadSessionsDone(i, ok, saved) ==
    /\ pending[i].kind = "getProjectSessions"
    /\ sessions' = IF ok THEN getProjectSessions(pending[i].arg) ELSE <<>>
    /\ settings' = setSetting(settings, CURRENT_PROJECT_ID, pending[i].arg, saved)
    /\ pending' = RemoveAt(pending, i)
    /\ hist' = Hist("loadSessions", pending[i].arg, "null")
    /\ UNCHANGED <<userProjects, claudeProjects, currentProject,
                   currentSession, now, awaiting>>
    /\ UNCHANGED <<projects, db, uiState, searchQuery>>

\* A click on an entry of the session history panel, which is rendered
\* while a project is selected.
handleSessionSelect(session, saved) ==
    /\ currentProject # NullProject
    /\ session \in Range(AllSessions)
    /\ currentSession' = session
    /\ settings' = setSetting(settings, CURRENT_SESSION_ID, session.id, saved)
    /\ awaiting' = AwaitingAfter(currentProject, session)
    /\ hist' = Hist("handleSessionSelect", session.id, "null")
    /\ UNCHANGED <<userProjects, claudeProjects, sessions, currentProject,
                   pending, now>>
    /\ UNCHANGED <<projects, db, uiState, searchQuery>>

handleCreateNewSession_appends ==
    /\ currentProject # NullProject
    /\ now < MaxClock
    /\ now' = now + 1
    /\ LET tempSession ==
               [id |-> TempSessionId(now'),
                project_id |-> currentProject,
                project_path |-> PathOf(currentProject),
                isTemporary |-> TRUE, isNewlyCreated |-> FALSE]
       IN /\ currentSession' = tempSession
          /\ sessions' = <<tempSession>> \o sessions
          /\ awaiting' = AwaitingAfter(currentProject, tempSession)
    /\ hist' = Hist("handleCreateNewSession", "null", "null")
    /\ UNCHANGED <<userProjects, claudeProjects, currentProject,
                   settings, pending>>
    /\ UNCHANGED <<projects, db, uiState, searchQuery>>

\* The "New Session" buttons; Date.now() has advanced since the last click.
handleCreateNewSession ==
    /\ currentProject # NullProject
    /\ now < MaxClock
    /\ now' = now + 1
    /\ LET tempSession ==
               [id |-> TempSessionId(now'),
                project_id |-> currentProject,
                project_path |-> PathOf(currentProject),
                isTemporary |-> TRUE, isNewlyCreated |-> FALSE]
       IN /\ currentSession' = tempSession
          /\ awaiting' = AwaitingAfter(currentProject, tempSession)
    /\ hist' = Hist("handleCreateNewSession", "null", "null")
    /\ UNCHANGED <<userProjects, claudeProjects, sessions, currentProject,
                   settings, pending>>
    /\ UNCHANGED <<projects, db, uiState, searchQuery>>

\* The placeholder identifiers handleCreateNewSession can have produced.
IsPlaceholderId(sid) == \E t \in 1..MaxClock : sid = TempSessionId(t)

\* The conversation view sends the first message of the placeholder it shows;
\* the engine will answer with the identifier of that session.
SendFirstMessage ==
    /\ currentProject # NullProject
    /\ currentSession # NullSession
    /\ currentSession.isTemporary
    /\ IsPlaceholderId(currentSession.id)
    /\ awaiting = "null"
    /\ awaiting' = currentSession.id
    /\ hist' = Hist("sendFirstMessage", currentSession.id, "null")
    /\ UNCHANGED <<userProjects, claudeProjects, sessions, currentProject,
                   currentSession, settings, pending, now>>
    /\ UNCHANGED <<projects, db, uiState, searchQuery>>

IsTemporarySelected_anySession(session) == session # NullSession

\* if (currentSession?.isTemporary)
IsTemporarySelected(session) == session # NullSession /\ session.isTemporary

ReconciledList_noFilter(prev, newSession) == <<newSession>> \o prev

\* setSessions(prev => [newSession, ...prev.filter(s => s.id !== newSessionId)])
ReconciledList(prev, newSession) ==
    <<newSession>> \o FilterOutId(prev, newSession.id)

ReconciledSession_confirmed(prev, newSessionId) ==
    IF prev # NullSession
    THEN [prev EXCEPT !.id = newSessionId, !.isNewlyCreated = TRUE,
                      !.isTemporary = FALSE]
    ELSE NullSession

\* setCurrentSession(prev => prev ? {...prev, id: newSessionId, isNewlyCreated: true} : null)
ReconciledSession(prev, newSessionId) ==
    IF prev # NullSession
    THEN [prev EXCEPT !.id = newSessionId, !.isNewlyCreated = TRUE]
    ELSE NullSession

\* onSessionCreated of the conversation view, run against the selection
\* that is current when the identifier arrives.
onSessionCreated(newSessionId) ==
    /\ IF IsTemporarySelected(currentSession)
       THEN LET newSession ==
                    [id |-> newSessionId,
                     project_id |-> currentProject,
                     project_path |-> PathOf(currentProject),
                     isTemporary |-> FALSE, isNewlyCreated |-> TRUE]
            IN /\ sessions' = ReconciledList(sessions, newSession)
               /\ currentSession' = ReconciledSession(currentSession, newSessionId)
       ELSE UNCHANGED <<sessions, currentSession>>
    /\ awaiting' = "null"
    /\ hist' = Hist("onSessionCreated", newSessionId, awaiting)
    /\ UNCHANGED <<userProjects, claudeProjects, currentProject, settings,
                   pending, now>>
    /\ UNCHANGED <<projects, db, uiState, searchQuery>>

\* onBack of the conversation view.
onBack ==
    /\ currentProject # NullProject
    /\ currentSession # NullSession
    /\ currentSession' = NullSession
    /\ awaiting' = "null"
    /\ hist' = Hist("onBack", "null", "null")
    /\ UNCHANGED <<userProjects, claudeProjects, sessions, currentProject,
                   settings, pending, now>>
    /\ UNCHANGED <<projects, db, uiState, searchQuery>>

Next ==
    \/ \E i \in 1..Len(pending), ok \in BOOLEAN :
           LoadProjectsDone(i, DiscoveredProjects, ok)
    \/ \E p \in Range(userProjects) \cup Range(claudeProjects) :
           handleProjectSelect(p)
    \/ \E i \in 1..Len(pending), ok \in BOOLEAN, saved \in BOOLEAN :
           LoadSessionsDone(i, ok, saved)
    \/ \E s \in Range(AllSessions), saved \in BOOLEAN : handleSessionSelect(s, saved)
    \/ handleCreateNewSession
    \/ SendFirstMessage
    \/ \E r \in EngineIds : onSessionCreated(r)
    \/ onBack

Spec == Init /\ [][Next]_vars

\* ---------------------------------------------------------- the registry
\* Lists api.listProjects() may answer with.
DiscoveredLists ==
    {DiscoveredProjects,
     <<Project("P3", "/b", FALSE, 0), Project("P2", "/a-other", FALSE, 0)>>}

\* fs.access(path), fs.stat(path).isDirectory()
IsDirectory(path) == path \in Paths

RowsByPath_active(rows, path) ==
    SelectSeq(rows, LAMBDA r : r.path = path /\ r.is_active)

\* repository.findOne({ where: { path } }): the rows a path has.
RowsByPath(rows, path) == SelectSeq(rows, LAMBDA r : r.path = path)

\* repository.findOne({ where: { id } })
RowsById(rows, id) == SelectSeq(rows, LAMBDA r : r.id = id)

\* The key of a new row (PrimaryGeneratedColumn).
NextId(rows) == Len(rows) + 1

\* createUserProject: is_active: data.is_active ?? true
createUserProject(rows, path) == Append(rows, UserProject(NextId(rows), path, TRUE))

\* The body shared by 'add-user-project' and 'add-user-project-by-dialog':
\* the duplicate check, the directory check, then the new row.
addResult(rows, path) ==
    IF RowsByPath(rows, path) # <<>> THEN "Project already exists in the list"
    ELSE IF ~IsDirectory(path) THEN "Cannot access the directory"
    ELSE "created"

addUserProjectRows(rows, path) ==
    IF addResult(rows, path) = "created" THEN createUserProject(rows, path)
    ELSE rows

deleteUserProject_hard(rows, id) == SelectSeq(rows, LAMBDA r : r.id # id)

\* deleteUserProject: userProject.is_active = false; repository.save
deleteUserProject(rows, id) ==
    [i \in 1..Len(rows) |->
        IF rows[i].id = id THEN [rows[i] EXCEPT !.is_active = FALSE] ELSE rows[i]]

\* updateUserProject: Object.assign(userProject, data); "keep" stands for a
\* field that data does not carry.
updateUserProjectRows(rows, id, path, active) ==
    [i \in 1..Len(rows) |->
        IF rows[i].id = id
        THEN [rows[i] EXCEPT
                 !.path = IF path = "keep" THEN @ ELSE path,
                 !.is_active = IF active = "keep" THEN @ ELSE active = "true"]
        ELSE rows[i]]

\* ipcMain.handle('add-user-project')
addUserProject(path) ==
    /\ Len(db) < MaxRecords
    /\ db' = addUserProjectRows(db, path)
    /\ hist' = RegistryHist("add-user-project", path, addResult(db, path))
    /\ UNCHANGED <<userProjects, claudeProjects, projects, sessions,
                   currentProject, currentSession, settings, pending, now,
                   awaiting, uiState, searchQuery>>

\* handleAddUserProject: api.addUserProjectByDialog(), where the dialog is
\* cancelled or names a path, and then loadProjects() for a new project.
handleAddUserProject(choice) ==
    /\ Len(db) < MaxRecords
    /\ Len(pending) < MaxPending
    /\ IF choice = "canceled"
       THEN /\ UNCHANGED <<db, pending>>
            /\ hist' = RegistryHist("add-user-project-by-dialog", choice, "canceled")
       ELSE /\ db' = addUserProjectRows(db, choice)
            /\ pending' = IF addResult(db, choice) = "created"
                          THEN Append(pending, Call("loadProjects", "null", "null"))
                          ELSE pending
            /\ hist' = RegistryHist("add-user-project-by-dialog", choice,
                                    addResult(db, choice))
    /\ UNCHANGED <<userProjects, claudeProjects, projects, sessions,
                   currentProject, currentSession, settings, now, awaiting,
                   uiState, searchQuery>>

\* ipcMain.handle('remove-user-project')
removeResult(rows, id) ==
    IF RowsById(rows, id) = <<>> THEN "not found" ELSE "removed"

removeUserProject(id) ==
    /\ db' = IF removeResult(db, id) = "removed" THEN deleteUserProject(db, id)
             ELSE db
    /\ hist' = RegistryHist("remove-user-project", ToString(id), removeResult(db, id))
    /\ UNCHANGED <<userProjects, claudeProjects, projects, sessions,
                   currentProject, currentSession, settings, pending, now,
                   awaiting, uiState, searchQuery>>

\* handleRemoveUserProject of an entry of the registered list: the user
\* confirms or not, the row is removed by its databaseId, then loadProjects().
handleRemoveUserProject(project, confirmed) ==
    /\ project \in Range(userProjects)
    /\ Len(pending) < MaxPending
    /\ IF confirmed /\ project.databaseId # 0
       THEN /\ db' = IF removeResult(db, project.databaseId) = "removed"
                     THEN deleteUserProject(db, project.databaseId)
                     ELSE db
            /\ pending' = IF removeResult(db, project.databaseId) = "removed"
                          THEN Append(pending, Call("loadProjects", "null", "null"))
                          ELSE pending
            /\ hist' = RegistryHist("remove-user-project",
                                    ToString(project.databaseId),
                                    removeResult(db, project.databaseId))
       ELSE /\ UNCHANGED <<db, pending>>
            /\ hist' = RegistryHist("handleRemoveUserProject", project.id, "null")
    /\ UNCHANGED <<userProjects, claudeProjects, projects, sessions,
                   currentProject, currentSession, settings, now, awaiting,
                   uiState, searchQuery>>

\* ipcMain.handle('update-user-project')
updateUserProject(id, path, active) ==
    /\ db' = updateUserProjectRows(db, id, path, active)
    /\ hist' = RegistryHist("update-user-project", ToString(id),
                            IF RowsById(db, id) = <<>> THEN "not found"
                            ELSE "updated")
    /\ UNCHANGED <<userProjects, claudeProjects, projects, sessions,
                   currentProject, currentSession, settings, pending, now,
                   awaiting, uiState, searchQuery>>

NextRegistry ==
    \/ \E i \in 1..Len(pending), d \in DiscoveredLists, ok \in BOOLEAN :
           LoadProjectsDone(i, d, ok)
    \/ \E path \in Paths \cup {BadPath} : addUserProject(path)
    \/ \E choice \in Paths \cup {BadPath, "canceled"} : handleAddUserProject(choice)
    \/ \E id \in 1..(MaxRecords + 1) : removeUserProject(id)
    \/ \E project \in Range(userProjects), confirmed \in BOOLEAN :
           handleRemoveUserProject(project, confirmed)
    \/ \E id \in 1..MaxRecords, path \in Paths \cup {"keep"},
          active \in {"keep", "true", "false"} :
           updateUserProject(id, path, active)

SpecRegistry == Init /\ [][NextRegistry]_vars

\* ------------------------------------------------------ the layout store
\* The settings store holds strings.  Spelling gives the characters of each
\* string the model stores, searches or parses.
Spelling ==
    ("" :> <<>>) @@
    ("true" :> <<"t", "r", "u", "e">>) @@
    ("false" :> <<"f", "a", "l", "s", "e">>) @@
    ("TRUE" :> <<"T", "R", "U", "E">>) @@
    ("1" :> <<"1">>) @@
    ("0" :> <<"0">>) @@
    ("340" :> <<"3", "4", "0">>) @@
    ("300" :> <<"3", "0", "0">>) @@
    ("-5" :> <<"-", "5">>) @@
    (" 42" :> <<" ", "4", "2">>) @@
    ("12px" :> <<"1", "2", "p", "x">>) @@
    ("abc" :> <<"a", "b", "c">>) @@
    ("/a" :> <<"/", "a">>) @@
    ("/a-other" :> <<"/", "a", "-", "o", "t", "h", "e", "r">>) @@
    ("/b" :> <<"/", "b">>) @@
    ("P1" :> <<"P", "1">>) @@
    ("P2" :> <<"P", "2">>) @@
    ("P3" :> <<"P", "3">>)

\* The string with the given characters.
Str(chars) == CHOOSE s \in DOMAIN Spelling : Spelling[s] = chars

DigitChars == <<"0", "1", "2", "3", "4", "5", "6", "7", "8", "9">>

IsDigit(c) == \E d \in 1..Len(DigitChars) : DigitChars[d] = c

DigitValue(c) == (CHOOSE d \in 1..Len(DigitChars) : DigitChars[d] = c) - 1

\* Number.prototype.toString() of a non-negative integer.
RECURSIVE DecimalChars(_)
DecimalChars(n) ==
    IF n < 10 THEN <<DigitChars[n + 1]>>
    ELSE Append(DecimalChars(n \div 10), DigitChars[(n % 10) + 1])

numberToString(n) == Str(DecimalChars(n))

\* Boolean.prototype.toString()
booleanToString(b) == IF b THEN "true" ELSE "false"

NaN == [nan |-> TRUE, n |-> 0]

\* The value of the longest run of digits at the head of chars, read after
\* the digits `acc` already taken.
RECURSIVE DigitsValue(_, _)
DigitsValue(chars, acc) ==
    IF chars = <<>> \/ ~IsDigit(Head(chars)) THEN acc
    ELSE DigitsValue(Tail(chars), (acc * 10) + DigitValue(Head(chars)))

RECURSIVE SkipWhitespace(_)
SkipWhitespace(chars) ==
    IF chars # <<>> /\ Head(chars) = " " THEN SkipWhitespace(Tail(chars))
    ELSE chars

\* parseInt(value) of a stored value: undefined and strings that do not
\* start (after white space and a sign) with a digit give NaN, otherwise
\* the leading digits are read and the rest of the string is ignored.
parseInt(value) ==
    IF value = Absent THEN NaN
    ELSE LET trimmed == SkipWhitespace(Spelling[value])
             signed  == trimmed # <<>> /\ Head(trimmed) \in {"-", "+"}
             body    == IF signed THEN Tail(trimmed) ELSE trimmed
             sign    == IF signed /\ Head(trimmed) = "-" THEN -1 ELSE 1
         IN  IF body = <<>> \/ ~IsDigit(Head(body)) THEN NaN
             ELSE [nan |-> FALSE, n |-> sign * DigitsValue(body, 0)]

\* parsed || fallback: NaN and 0 are falsy.
OrDefault(parsed, fallback) ==
    IF parsed.nan \/ parsed.n = 0 THEN fallback ELSE parsed.n

loadedUIState_truthy(store) ==
    [leftPanelCollapsed |-> store[LEFT_PANEL_COLLAPSED] \notin {Absent, ""},
     rightPanelCollapsed |-> store[RIGHT_PANEL_COLLAPSED] \notin {Absent, ""},
     leftPanelWidth |-> OrDefault(parseInt(store[LEFT_PANEL_WIDTH]),
                                  DEFAULT_UI_STATE.leftPanelWidth),
     rightPanelWidth |-> OrDefault(parseInt(store[RIGHT_PANEL_WIDTH]),
                                   DEFAULT_UI_STATE.rightPanelWidth),
     claudeProjectsCollapsed |-> store[CLAUDE_PROJECTS_COLLAPSED] # "false"]

\* newUIState of loadUIState
loadedUIState(store) ==
    [leftPanelCollapsed |-> store[LEFT_PANEL_COLLAPSED] = "true",
     rightPanelCollapsed |-> store[RIGHT_PANEL_COLLAPSED] = "true",
     leftPanelWidth |-> OrDefault(parseInt(store[LEFT_PANEL_WIDTH]),
                                  DEFAULT_UI_STATE.leftPanelWidth),
     rightPanelWidth |-> OrDefault(parseInt(store[RIGHT_PANEL_WIDTH]),
                                   DEFAULT_UI_STATE.rightPanelWidth),
     claudeProjectsCollapsed |-> store[CLAUDE_PROJECTS_COLLAPSED] # "false"]

\* loadUIState resolved: api.getSettings answered, or it threw and the
\* failure is only logged.  The stored project and session ids are read
\* into two constants and the block that follows them is empty.
LoadUIStateDone(i, ok) ==
    /\ pending[i].kind = "loadUIState"
    /\ uiState' = IF ok THEN loadedUIState(settings) ELSE uiState
    /\ pending' = RemoveAt(pending, i)
    /\ hist' = NoHist("loadUIState", IF ok THEN "ok" ELSE "failed",
                      pending[i].arg)
    /\ UNCHANGED <<userProjects, claudeProjects, sessions, currentProject,
                   currentSession, settings, now, awaiting, projects, db,
                   searchQuery>>

\* The settings key of each field of UIState.
FieldKey ==
    [leftPanelCollapsed |-> LEFT_PANEL_COLLAPSED,
     rightPanelCollapsed |-> RIGHT_PANEL_COLLAPSED,
     leftPanelWidth |-> LEFT_PANEL_WIDTH,
     rightPanelWidth |-> RIGHT_PANEL_WIDTH,
     claudeProjectsCollapsed |-> CLAUDE_PROJECTS_COLLAPSED]

WidthFields == {"leftPanelWidth", "rightPanelWidth"}

FieldOf(key) == CHOOSE f \in DOMAIN FieldKey : FieldKey[f] = key

\* setUIState(prev => ({ ...prev, ...newState }))
MergeUIState(prev, newState) ==
    [f \in DOMAIN prev |-> IF f \in DOMAIN newState THEN newState[f] ELSE prev[f]]

FieldToString(state, f) ==
    IF f \in WidthFields THEN numberToString(state[f])
    ELSE booleanToString(state[f])

settingsToSave_all(newState) ==
    [key \in LayoutKeys |->
        FieldToString(MergeUIState(uiState, newState), FieldOf(key))]

\* settingsToSave of saveUIState: one entry for each field of the partial
\* state that is defined.
settingsToSave(newState) ==
    [key \in {FieldKey[f] : f \in DOMAIN newState} |->
        FieldToString(newState, FieldOf(key))]

\* api.setSettings(settingsToSave): the store takes the given entries, or
\* the call fails and the failure is only logged.
setSettings(store, toSave, ok) ==
    IF ok
    THEN [k \in DOMAIN store |-> IF k \in DOMAIN toSave THEN toSave[k] ELSE store[k]]
    ELSE store

SavedArg(ok) == IF ok THEN "saved" ELSE "failed"

\* A toggle: the flag of the latest render is negated, merged into uiState
\* and handed to saveUIState.
Toggle(op, newState, ok) ==
    /\ uiState' = MergeUIState(uiState, newState)
    /\ settings' = setSettings(settings, settingsToSave(newState), ok)
    /\ hist' = NoHist(op, SavedArg(ok), "null")
    /\ UNCHANGED <<userProjects, claudeProjects, sessions, currentProject,
                   currentSession, pending, now, awaiting, projects, db,
                   searchQuery>>

toggleLeftPanel(ok) ==
    Toggle("toggleLeftPanel",
           [leftPanelCollapsed |-> ~uiState.leftPanelCollapsed], ok)

toggleRightPanel(ok) ==
    Toggle("toggleRightPanel",
           [rightPanelCollapsed |-> ~uiState.rightPanelCollapsed], ok)

toggleClaudeProjects(ok) ==
    Toggle("toggleClaudeProjects",
           [claudeProjectsCollapsed |-> ~uiState.claudeProjectsCollapsed], ok)

\* The widths saveUIState is called with.
Widths == {0, 340}

\* The partial states saveUIState is called with beyond those of the
\* toggles: one width, or the whole UIState with both widths set.
NewStates ==
    {[leftPanelWidth |-> w] : w \in Widths}
    \cup {[rightPanelWidth |-> w] : w \in Widths}
    \cup {MergeUIState(uiState, [leftPanelWidth |-> w, rightPanelWidth |-> v]) :
             w \in Widths, v \in Widths}

\* saveUIState(newState)
saveUIState(newState, ok) ==
    /\ settings' = setSettings(settings, settingsToSave(newState), ok)
    /\ hist' = NoHist("saveUIState", SavedArg(ok), "null")
    /\ UNCHANGED <<userProjects, claudeProjects, sessions, currentProject,
                   currentSession, pending, now, awaiting, projects, db,
                   uiState, searchQuery>>

\* --------------------------------------------------------------- restart
\* The state after the component is mounted: every useState at its initial
\* value and the initialize effect has called loadUIState() and
\* loadProjects().  `run` names the mount that issued the two calls.
MountCalls(run) ==
    <<Call("loadUIState", run, "null"), Call("loadProjects", run, "null")>>

InitMount ==
    /\ userProjects = <<>>
    /\ claudeProjects = <<>>
    /\ sessions = <<>>
    /\ currentProject = NullProject
    /\ currentSession = NullSession
    /\ settings = [k \in SettingsKeys |-> Absent]
    /\ pending = MountCalls("null")
    /\ now = 0
    /\ awaiting = "null"
    /\ hist = NoHist("init", "null", "null")
    /\ projects = <<>>
    /\ db = InitialDb
    /\ uiState = DEFAULT_UI_STATE
    /\ searchQuery = <<>>

\* The application is closed and started again: the component is mounted
\* anew over the same settings store and the same user_projects table, and
\* the calls of the previous mount are gone.
Restart ==
    /\ userProjects' = <<>>
    /\ claudeProjects' = <<>>
    /\ projects' = <<>>
    /\ sessions' = <<>>
    /\ currentProject' = NullProject
    /\ currentSession' = NullSession
    /\ uiState' = DEFAULT_UI_STATE
    /\ searchQuery' = <<>>
    /\ pending' = MountCalls("restart")
    /\ awaiting' = "null"
    /\ hist' = NoHist("restart", "null", "null")
    /\ UNCHANGED <<settings, db, now>>


\* Selecting, restarting and loading again.
NextRestart ==
    \/ \E i \in 1..Len(pending), ok \in BOOLEAN : LoadUIStateDone(i, ok)
    \/ \E i \in 1..Len(pending), ok \in BOOLEAN :
           LoadProjectsDone(i, DiscoveredProjects, ok)
    \/ \E p \in Range(userProjects) \cup Range(claudeProjects) :
           handleProjectSelect(p)
    \/ \E i \in 1..Len(pending), ok \in BOOLEAN, saved \in BOOLEAN :
           LoadSessionsDone(i, ok, saved)
    \/ \E s \in Range(AllSessions), saved \in BOOLEAN : handleSessionSelect(s, saved)
    \/ Restart

SpecRestart == InitMount /\ [][NextRestart]_vars

\* The layout: a mount over a store that holds the selection of an earlier
\* run, toggles, saves and restarts.
InitLayout ==
    /\ userProjects = <<>>
    /\ claudeProjects = <<>>
    /\ sessions = <<>>
    /\ currentProject = NullProject
    /\ currentSession = NullSession
    /\ settings = [k \in SettingsKeys |->
                      IF k = CURRENT_PROJECT_ID THEN "P1"
                      ELSE IF k = CURRENT_SESSION_ID THEN "S1" ELSE Absent]
    /\ pending = MountCalls("null")
    /\ now = 0
    /\ awaiting = "null"
    /\ hist = NoHist("init", "null", "null")
    /\ projects = <<>>
    /\ db = InitialDb
    /\ uiState = DEFAULT_UI_STATE
    /\ searchQuery = <<>>

NextLayout ==
    \/ \E i \in 1..Len(pending), ok \in BOOLEAN : LoadUIStateDone(i, ok)
    \/ \E i \in 1..Len(pending), ok \in BOOLEAN :
           LoadProjectsDone(i, DiscoveredProjects, ok)
    \/ \E ok \in BOOLEAN : toggleLeftPanel(ok)
    \/ \E ok \in BOOLEAN : toggleRightPanel(ok)
    \/ \E ok \in BOOLEAN : toggleClaudeProjects(ok)
    \/ \E newState \in NewStates, ok \in BOOLEAN : saveUIState(newState, ok)
    \/ Restart

SpecLayout == InitLayout /\ [][NextLayout]_vars

\* Loading the layout from a store that holds whatever an earlier run, an
\* earlier version or another tool left under the layout keys.
FlagValues == {Absent, "true", "false", "TRUE"}

WidthValues == {Absent, "340", "0", "abc", "12px", "-5", " 42", ""}

WidthKeys == {LEFT_PANEL_WIDTH, RIGHT_PANEL_WIDTH}

InitLoadUI ==
    /\ userProjects = <<>>
    /\ claudeProjects = <<>>
    /\ sessions = <<>>
    /\ currentProject = NullProject
    /\ currentSession = NullSession
    /\ \E flags \in [LayoutKeys \ WidthKeys -> FlagValues],
          widths \in [WidthKeys -> WidthValues] :
           settings = [key \in SettingsKeys |->
                          IF key \in WidthKeys THEN widths[key]
                          ELSE IF key \in LayoutKeys THEN flags[key]
                          ELSE Absent]
    /\ pending = MountCalls("null")
    /\ now = 0
    /\ awaiting = "null"
    /\ hist = NoHist("init", "null", "null")
    /\ projects = <<>>
    /\ db = InitialDb
    /\ uiState = DEFAULT_UI_STATE
    /\ searchQuery = <<>>

NextLoadUI ==
    \/ \E i \in 1..Len(pending), ok \in BOOLEAN : LoadUIStateDone(i, ok)
    \/ \E i \in 1..Len(pending), ok \in BOOLEAN :
           LoadProjectsDone(i, DiscoveredProjects, ok)

SpecLoadUI == InitLoadUI /\ [][NextLoadUI]_vars

\* ------------------------------------------------------------ the filter
MaxQueryLen == 2

\* The characters typed into the search box.
QueryChars == {"a", "O", "p", "2", "/"}

Queries == UNION {[1..n -> QueryChars] : n \in 0..MaxQueryLen}

\* The upper-case letters of the model and their lower-case forms.
LowerOf ==
    ("A" :> "a") @@ ("E" :> "e") @@ ("O" :> "o") @@ ("P" :> "p") @@
    ("R" :> "r") @@ ("T" :> "t") @@ ("U" :> "u")

\* String.prototype.toLowerCase()
toLowerCase(chars) ==
    [i \in 1..Len(chars) |->
        IF chars[i] \in DOMAIN LowerOf THEN LowerOf[chars[i]] ELSE chars[i]]

RECURSIVE startsWith(_, _)
startsWith(chars, search) ==
    \/ search = <<>>
    \/ /\ chars # <<>>
       /\ Head(chars) = Head(search)
       /\ startsWith(Tail(chars), Tail(search))

\* String.prototype.includes(search)
RECURSIVE includes(_, _)
includes(chars, search) ==
    \/ startsWith(chars, search)
    \/ chars # <<>> /\ includes(Tail(chars), search)

matchesSearch_pathOnly(project, query) ==
    includes(toLowerCase(Spelling[project.path]), toLowerCase(query))

\* The predicate of both filters.
matchesSearch(project, query) ==
    \/ includes(toLowerCase(Spelling[project.path]), toLowerCase(query))
    \/ includes(toLowerCase(Spelling[project.id]), toLowerCase(query))

filteredUserProjects ==
    SelectSeq(userProjects, LAMBDA project : matchesSearch(project, searchQuery))

filteredClaudeProjects ==
    SelectSeq(claudeProjects, LAMBDA project : matchesSearch(project, searchQuery))

\* onChange of the search box: setSearchQuery(e.target.value)
setSearchQuery(query) ==
    /\ searchQuery' = query
    /\ hist' = NoHist("setSearchQuery", "null", "null")
    /\ UNCHANGED <<userProjects, claudeProjects, sessions, currentProject,
                   currentSession, settings, pending, now, awaiting, projects,
                   db, uiState>>

NextFilter ==
    \/ \E i \in 1..Len(pending), ok \in BOOLEAN : LoadUIStateDone(i, ok)
    \/ \E i \in 1..Len(pending), discovered \in DiscoveredLists, ok \in BOOLEAN :
           LoadProjectsDone(i, discovered, ok)
    \/ \E choice \in Paths : handleAddUserProject(choice)
    \/ \E query \in Queries : setSearchQuery(query)

SpecFilter == InitMount /\ [][NextFilter]_vars

\* ------------------------------------------- selection and the registry
\* Selecting projects while registered projects are added and removed.
NextSelection ==
    \/ \E i \in 1..Len(pending), ok \in BOOLEAN :
           LoadProjectsDone(i, DiscoveredProjects, ok)
    \/ \E p \in Range(userProjects) \cup Range(claudeProjects) :
           handleProjectSelect(p)
    \/ \E i \in 1..Len(pending), ok \in BOOLEAN, saved \in BOOLEAN :
           LoadSessionsDone(i, ok, saved)
    \/ \E choice \in Paths : handleAddUserProject(choice)
    \/ \E project \in Range(userProjects), confirmed \in BOOLEAN :
           handleRemoveUserProject(project, confirmed)

SpecSelection == Init /\ [][NextSelection]_vars

\* ------------------------------------------------------------ properties
\* The last handler was onSessionCreated and its guard let it through.
Reconciled ==
    /\ hist.op = "onSessionCreated"
    /\ IsTemporarySelected(hist.currentSession)

\* Indices of the entries of a list that carry an identifier.
IndicesOf(list, sid) == {i \in 1..Len(list) : list[i].id = sid}

\* C1: whenever onSessionCreated has just been applied to a selected
\* placeholder, the render key of the conversation view is the key it had
\* immediately before the identifier swap.
C1_KeyUnchangedByReconcile == Reconciled => RenderKey = hist.key

C1_Witness ==
    /\ Reconciled
    /\ IsPlaceholderId(hist.currentSession.id)
    /\ currentSession.id = hist.arg
    /\ hist.key # "unmounted"

\* C2: an onSessionCreated that arrives while no session is selected, or
\* while a session not marked temporary is selected, changes neither the
\* session list nor the current selection.
C2_StaleCallbackIsNoOp ==
    (hist.op = "onSessionCreated" /\ ~hist.currentSession.isTemporary)
        => /\ sessions = hist.sessions
           /\ currentSession = hist.currentSession

C2_Witness ==
    /\ hist.op = "onSessionCreated"
    /\ hist.currentSession # NullSession
    /\ ~hist.currentSession.isTemporary
    /\ ~hist.currentSession.isNewlyCreated
    /\ \E i \in 1..Len(sessions) : sessions[i] = hist.currentSession

\* C3: an identifier produced for one placeholder is attached only to that
\* placeholder: when it arrives while another session (or none) is selected,
\* the selection and the session list stay as they were.
C3_OnlyOriginIsReconciled ==
    (/\ hist.op = "onSessionCreated"
     /\ hist.origin # "null"
     /\ hist.currentSession.id # hist.origin)
        => /\ sessions = hist.sessions
           /\ currentSession = hist.currentSession

\* C4: after the selected placeholder was reconciled with R, the list shown
\* has exactly one entry R, at its head, followed by the previous entries
\* other than R in their previous order; no entry shown is a placeholder and
\* no two entries share an identifier.
C4_ReconciledList ==
    Reconciled =>
        /\ Len(AllSessions) >= 1
        /\ AllSessions[1].id = hist.arg
        /\ IndicesOf(AllSessions, hist.arg) = {1}
        /\ Tail(AllSessions) = FilterOutId(hist.sessions, hist.arg)
        /\ \A i \in 1..Len(AllSessions) :
              /\ ~AllSessions[i].isTemporary
              /\ ~IsPlaceholderId(AllSessions[i].id)
              /\ IndicesOf(AllSessions, AllSessions[i].id) = {i}

C4_Witness ==
    /\ Reconciled
    /\ IsPlaceholderId(hist.currentSession.id)
    /\ Len(hist.sessions) >= 3
    /\ \E i \in 2..Len(hist.sessions) : hist.sessions[i].id = hist.arg

\* C5: after a placeholder was reconciled, neither the list shown nor the
\* current selection carries a session marked temporary.
C5_NoPlaceholderAfterReconcile ==
    Reconciled =>
        /\ ~currentSession.isTemporary
        /\ \A i \in 1..Len(AllSessions) : ~AllSessions[i].isTemporary

\* C6: an onSessionCreated that arrives while the selection already holds an
\* identifier assigned by the engine leaves that identifier as it is.
C6_EngineIdNeverRewritten ==
    (/\ hist.op = "onSessionCreated"
     /\ hist.currentSession # NullSession
     /\ ~IsPlaceholderId(hist.currentSession.id))
        => currentSession.id = hist.currentSession.id

\* The sessions marked temporary of a project, in the list shown and in the
\* current selection.
PlaceholdersOf(p) ==
    {s \in Range(AllSessions) \cup {currentSession} :
        s # NullSession /\ s.isTemporary /\ s.project_id = p}

\* C7: every project has at most one placeholder session, in the list shown
\* and the current selection together, and a "new session" action taken
\* while a placeholder is selected leaves the old placeholder nowhere.
C7_AtMostOnePlaceholder ==
    /\ \A p \in Projects : Cardinality(PlaceholdersOf(p)) <= 1
    /\ Cardinality({i \in 1..Len(AllSessions) : AllSessions[i].isTemporary}) <= 1
    /\ (hist.op = "handleCreateNewSession" /\ IsPlaceholderId(hist.currentSession.id))
          => /\ currentSession.id # hist.currentSession.id
             /\ IndicesOf(AllSessions, hist.currentSession.id) = {}

C7_Witness ==
    /\ hist.op = "handleCreateNewSession"
    /\ IsPlaceholderId(hist.currentSession.id)
    /\ hist.currentSession.isTemporary
    /\ currentSession.isTemporary
    /\ hist.currentSession.project_id = currentSession.project_id

\* C8: a selected session belongs to the selected project, and
\* handleProjectSelect leaves no session selected.
C8_SelectionConsistent ==
    /\ currentSession # NullSession
          => /\ currentProject # NullProject
             /\ currentSession.project_id = currentProject
    /\ hist.op = "handleProjectSelect" => currentSession = NullSession

\* C9: once every session-list load has resolved, the session list holds
\* sessions of the project selected last only; the result of a load for a
\* project that is no longer selected is not applied.
C9_LatestSelectionWins ==
    (/\ currentProject # NullProject
     /\ \A i \in 1..Len(pending) : pending[i].kind # "getProjectSessions")
        => \A i \in 1..Len(sessions) : sessions[i].project_id = currentProject

\* C10: the value stored under ui.currentSession.id is never a placeholder
\* identifier.
C10_NoPlaceholderPersisted == ~IsPlaceholderId(settings[CURRENT_SESSION_ID])

\* C12: after a loadProjects in which both adapters answered, with A the
\* registered list and B the discovered list, the merged list is A followed
\* by B: Len(A) + Len(B) entries, each group in the order it was returned.
C12_MergedIsRegisteredThenDiscovered ==
    (hist.op = "loadProjects" /\ hist.arg = "ok") =>
        LET A == getUserProjects(db)
            B == hist.discovered
        IN /\ userProjects = A
           /\ claudeProjects = B
           /\ Len(projects) = Len(A) + Len(B)
           /\ \A i \in 1..Len(A) : projects[i] = A[i] /\ projects[i].isUserProject
           /\ \A j \in 1..Len(B) : projects[Len(A) + j] = B[j]

C12_Witness ==
    /\ hist.op = "loadProjects"
    /\ hist.arg = "ok"
    /\ Len(userProjects) >= 2
    /\ Len(claudeProjects) >= 2

\* C13: after a loadProjects in which an adapter failed, the merged list
\* and both of its groups are empty.
C13_FailedLoadShowsNothing ==
    (hist.op = "loadProjects" /\ hist.arg = "failed") =>
        /\ projects = <<>>
        /\ userProjects = <<>>
        /\ claudeProjects = <<>>

AddOps == {"add-user-project", "add-user-project-by-dialog"}

HasRow(rows, path) == \E i \in 1..Len(rows) : rows[i].path = path

\* C17: adding a path that already has a row, or that is not an accessible
\* directory, answers with its error and leaves the rows as they were; the
\* rows change only by one new row for a path that passed both checks.
C17_AddChecksBeforeCreate ==
    [][hist'.op \in AddOps =>
          /\ (hist'.arg # "canceled" /\ HasRow(db, hist'.arg))
                => /\ db' = db
                   /\ hist'.result = "Project already exists in the list"
          /\ (hist'.arg # "canceled" /\ ~HasRow(db, hist'.arg)
                /\ hist'.arg \notin Paths)
                => /\ db' = db
                   /\ hist'.result = "Cannot access the directory"
          /\ db' # db
                => /\ ~HasRow(db, hist'.arg)
                   /\ hist'.arg \in Paths
                   /\ Len(db') = Len(db) + 1
                   /\ SubSeq(db', 1, Len(db)) = db
                   /\ db'[Len(db')].path = hist'.arg]_vars

C17_Witness ==
    /\ hist.op \in AddOps
    /\ hist.result = "Project already exists in the list"
    /\ \E i \in 1..Len(db) : db[i].path = hist.arg /\ ~db[i].is_active

\* C18: a removal marks the row inactive, so that get-user-projects no
\* longer lists it, and keeps it; no handler ever takes a row away.
C18_RemoveIsSoftDelete ==
    [][/\ Len(db') >= Len(db)
       /\ \A i \in 1..Len(db) : db'[i].id = db[i].id
       /\ (hist'.op = "remove-user-project" /\ hist'.result = "removed")
             => /\ \E i \in 1..Len(db') :
                      ToString(db'[i].id) = hist'.arg /\ ~db'[i].is_active
                /\ \A q \in Range(getUserProjects(db')) :
                      ToString(q.databaseId) # hist'.arg]_vars

C18_Witness ==
    /\ hist.op = "remove-user-project"
    /\ hist.result = "removed"
    /\ \E i \in 1..Len(db) : ToString(db[i].id) = hist.arg /\ ~db[i].is_active

\* C19: no two entries of the merged list have the same id.
C19_MergedIdsUnique ==
    \A i, j \in 1..Len(projects) : i # j => projects[i].id # projects[j].id


\* C11: after a restart whose two loads succeeded, a stored project that is
\* listed again and a stored session of that project are the selected
\* project and the selected session.
StoredSelectionAvailable ==
    /\ \E i \in 1..Len(projects) : projects[i].id = settings[CURRENT_PROJECT_ID]
    /\ \E s \in Range(getProjectSessions(settings[CURRENT_PROJECT_ID])) :
           s.id = settings[CURRENT_SESSION_ID]

C11_SelectionRestoredAfterRestart ==
    (/\ hist.op = "loadUIState" /\ hist.arg = "ok" /\ hist.origin = "restart"
     /\ pending = <<>>
     /\ StoredSelectionAvailable)
    => /\ currentProject = settings[CURRENT_PROJECT_ID]
       /\ currentSession # NullSession
       /\ currentSession.id = settings[CURRENT_SESSION_ID]

\* C14: what saveUIState wrote is what a later successful loadUIState
\* yields: a stored width that is the string of w reloads as w, a stored
\* flag that is the string of b reloads as b.
C14_LayoutRoundTrip ==
    (hist.op = "loadUIState" /\ hist.arg = "ok") =>
        /\ \A f \in WidthFields : \A w \in Widths \cup {DEFAULT_UI_STATE[f]} :
               settings[FieldKey[f]] = numberToString(w) => uiState[f] = w
        /\ \A f \in DOMAIN FieldKey \ WidthFields, b \in BOOLEAN :
               settings[FieldKey[f]] = booleanToString(b) => uiState[f] = b

\* The stored value holds no number: it is absent, or what follows its
\* leading blanks and one optional sign does not begin with a digit.
HoldsNoNumber(value) ==
    \/ value = Absent
    \/ LET chars == Spelling[value]
       IN  ~\E k \in 1..Len(chars) :
               /\ IsDigit(chars[k])
               /\ \A j \in 1..(k - 1) :
                      \/ chars[j] = " " /\ \A h \in 1..j : chars[h] = " "
                      \/ j = k - 1 /\ chars[j] \in {"-", "+"}

ToggleKey ==
    [toggleLeftPanel |-> LEFT_PANEL_COLLAPSED,
     toggleRightPanel |-> RIGHT_PANEL_COLLAPSED,
     toggleClaudeProjects |-> CLAUDE_PROJECTS_COLLAPSED]

\* C16: a step of a toggle leaves every settings key but its own as it
\* was, and when its write succeeds its own key holds the new flag.
C16_ToggleWritesOnlyItsKey ==
    [][\A t \in DOMAIN ToggleKey :
           hist'.op = t =>
               /\ \A key \in SettingsKeys \ {ToggleKey[t]} :
                      settings'[key] = settings[key]
               /\ hist'.arg = "saved" =>
                      settings'[ToggleKey[t]]
                          = booleanToString(uiState'[FieldOf(ToggleKey[t])])
               /\ hist'.arg = "failed" => settings' = settings]_vars

C16_Witness ==
    /\ hist.op = "toggleRightPanel" /\ hist.arg = "saved"
    /\ settings[RIGHT_PANEL_COLLAPSED] = "true"
    /\ settings[LEFT_PANEL_COLLAPSED] = "false"
    /\ settings[CLAUDE_PROJECTS_COLLAPSED] = "true"
    /\ settings[LEFT_PANEL_WIDTH] = "340"
    /\ settings[RIGHT_PANEL_WIDTH] = "0"
    /\ settings[CURRENT_PROJECT_ID] = "P1"
    /\ settings[CURRENT_SESSION_ID] = "S1"
    /\ uiState.leftPanelCollapsed /\ uiState.leftPanelWidth = 300

Folded(c) == IF c \in DOMAIN LowerOf THEN LowerOf[c] ELSE c

\* chars contains search at some offset, letters compared without case.
Contains(chars, search) ==
    \E offset \in 0..(Len(chars) - Len(search)) :
        \A k \in 1..Len(search) : Folded(chars[offset + k]) = Folded(search[k])

Matching(project, query) ==
    \/ Contains(Spelling[project.path], query)
    \/ Contains(Spelling[project.id], query)

\* shown is list restricted, in order, to exactly its matching entries.
IsFilterOf(shown, list, query) ==
    \E f \in [1..Len(shown) -> 1..Len(list)] :
        /\ \A i, j \in 1..Len(shown) : i < j => f[i] < f[j]
        /\ \A i \in 1..Len(shown) : shown[i] = list[f[i]]
        /\ {f[i] : i \in 1..Len(shown)}
               = {n \in 1..Len(list) : Matching(list[n], query)}

\* C20: each filtered list is the in-order sub-list of its own source list
\* with exactly the entries whose path or id contains the query without
\* regard to case; an empty query shows both lists whole; typing a query
\* changes neither source list nor the merged list.
C20_FilterIsMatchingSublist ==
    /\ [](/\ IsFilterOf(filteredUserProjects, userProjects, searchQuery)
          /\ IsFilterOf(filteredClaudeProjects, claudeProjects, searchQuery)
          /\ searchQuery = <<>> =>
                 /\ filteredUserProjects = userProjects
                 /\ filteredClaudeProjects = claudeProjects)
    /\ [][hist'.op = "setSearchQuery" =>
              UNCHANGED <<userProjects, claudeProjects, projects>>]_vars

C20_Witness ==
    /\ searchQuery = <<"p", "2">>
    /\ Len(userProjects) = 2 /\ Len(claudeProjects) = 2
    /\ Len(filteredUserProjects) = 1 /\ filteredUserProjects[1].path = "/a-other"
    /\ Len(filteredClaudeProjects) = 1 /\ filteredClaudeProjects[1] = claudeProjects[2]

\* C21: the selected project is none or the id of an entry of the merged
\* project list.
C21_SelectedProjectIsListed ==
    \/ currentProject = NullProject
    \/ \E i \in 1..Len(projects) : projects[i].id = currentProject

\* C22: an add is rejected as a duplicate only when a project with that
\* path is in the registered list, that is, when an active record has it.
C22_DuplicateOnlyWhenListed ==
    [][(hist'.op \in AddOps
            /\ hist'.result = "Project already exists in the list")
          => \E i \in 1..Len(getUserProjects(db)) :
                 getUserProjects(db)[i].path = hist'.arg]_vars

\* C23: when a project id and a session id are both stored, the stored
\* session is one of the sessions of the stored project.
C23_StoredSessionOfStoredProject ==
    (settings[CURRENT_PROJECT_ID] # Absent /\ settings[CURRENT_SESSION_ID] # Absent)
        => \E s \in Range(getProjectSessions(settings[CURRENT_PROJECT_ID])) :
               s.id = settings[CURRENT_SESSION_ID]

\* C24: when a new session is created while a session with an
\* engine-assigned id is shown, the conversation view of the placeholder
\* gets a render key other than the one that session was shown under.
C24_NewSessionGetsFreshKey ==
    (/\ hist.op = "handleCreateNewSession"
     /\ hist.currentSession # NullSession
     /\ hist.currentSession.id \in EngineIds
     /\ hist.key # "unmounted")
        => RenderKey # hist.key

====
